---------------------------- MODULE Spec2Model ----------------------------
(* A model of the FOMC "dot plot" scraper: src/src/scrape.py (scrape,      *)
(* _get_source_urls, _parse_source_url) and src/src/utils.py (parse_date,  *)
(* get_url, safestr).                                                      *)
(*                                                                         *)
(* Text is modelled character by character: a Python str is a sequence of  *)
(* one-character strings, None is the distinguished value None, and a      *)
(* pandas DataFrame is a record of an ordered column list and rows that    *)
(* are aligned with it by position (so that duplicate labels can exist).   *)
EXTENDS Integers, Sequences, FiniteSets, TLC

VARIABLES
    pc,           \* position of the run: see the actions
    err,          \* the stage whose exception ended the run, "" while none
    index_doc,    \* the anchors of the index page: the href of each, in document order
    source_list,  \* scrape(): source_df.to_dict(orient="records")
    k,            \* scrape(): number of completed iterations of the for loop
    html,         \* _parse_source_url(): the document get_url returned
    tables,       \* history: the table each completed extraction read
    df_list,      \* scrape(): df_list
    big_df,       \* scrape(): the returned frame (NoFrame until returned)
    requests,     \* history: the URL of every requests.get made, in order
    url_in,       \* the argument of a stand-alone parse_date call
    date_out      \* its outcome

vars == <<pc, err, index_doc, source_list, k, html, tables, df_list, big_df,
          requests, url_in, date_out>>

-----------------------------------------------------------------------------
(* Characters and Python's str operations.                                 *)

\* The characters the model uses, in code point order.
Ascii ==
    << " ", "-", ".", "/",
       "0", "1", "2", "3", "4", "5", "6", "7", "8", "9", ":",
       "A", "B", "C", "D", "E", "F", "G", "H", "I", "J", "K", "L", "M",
       "N", "O", "P", "Q", "R", "S", "T", "U", "V", "W", "X", "Y", "Z",
       "_",
       "a", "b", "c", "d", "e", "f", "g", "h", "i", "j", "k", "l", "m",
       "n", "o", "p", "q", "r", "s", "t", "u", "v", "w", "x", "y", "z" >>

Chars == {Ascii[n] : n \in 1..Len(Ascii)}

\* The place of each character in that order.
CodeOf == [c \in Chars |-> CHOOSE n \in 1..Len(Ascii) : Ascii[n] = c]

Code(c) == CodeOf[c]

Between(lo, hi) == {Ascii[n] : n \in CodeOf[lo]..CodeOf[hi]}

Digits == Between("0", "9")

Uppers == Between("A", "Z")

Lowers == Between("a", "z")

IsDigit(c) == c \in Digits

IsUpper(c) == c \in Uppers

IsLower(c) == c \in Lowers

IsSpace(c) == c = " "

\* str.lower() on one character.
LowerChar(c) == IF IsUpper(c) THEN Ascii[Code(c) - Code("A") + Code("a")] ELSE c

\* str.lower()
Lower(s) == [n \in 1..Len(s) |-> LowerChar(s[n])]

\* None, as a value that is no str.
None == << "None" >>

\* s[from:] with a 1-based first position.
From(s, from) == SubSeq(s, from, Len(s))

\* Whether p occurs in s starting at position n.
OccursAt(s, p, n) ==
    /\ n >= 1
    /\ n + Len(p) - 1 <= Len(s)
    /\ SubSeq(s, n, n + Len(p) - 1) = p

\* str.find: the least position >= from where p occurs in s, 0 when none.
Find(s, p, from) ==
    LET hits == {n \in from..Len(s) : OccursAt(s, p, n)}
    IN  IF hits = {} THEN 0 ELSE CHOOSE n \in hits : \A m \in hits : n <= m

\* `p in s`
Contains(s, p) == Find(s, p, 1) > 0

\* re.split(p, s) for a literal pattern p: the pieces between the leftmost
\* non-overlapping occurrences of p.
RECURSIVE Split(_, _)
Split(s, p) ==
    LET n == Find(s, p, 1)
    IN  IF n = 0 THEN << s >>
        ELSE << SubSeq(s, 1, n - 1) >> \o Split(From(s, n + Len(p)), p)

\* s.replace(p, ""): every leftmost non-overlapping occurrence removed, one pass.
RECURSIVE Remove(_, _)
Remove(s, p) ==
    LET n == Find(s, p, 1)
    IN  IF n = 0 THEN s
        ELSE SubSeq(s, 1, n - 1) \o Remove(From(s, n + Len(p)), p)

\* s[-n:]
LastN(s, n) == IF Len(s) <= n THEN s ELSE SubSeq(s, Len(s) - n + 1, Len(s))

\* str.strip()
RECURSIVE LStrip(_)
LStrip(s) == IF s /= << >> /\ IsSpace(Head(s)) THEN LStrip(Tail(s)) ELSE s

RECURSIVE RStrip(_)
RStrip(s) ==
    IF s /= << >> /\ IsSpace(s[Len(s)]) THEN RStrip(SubSeq(s, 1, Len(s) - 1)) ELSE s

Strip(s) == RStrip(LStrip(s))

\* Python's < on str: lexicographic by code point, a proper prefix first.
RECURSIVE StrLess(_, _)
StrLess(a, b) ==
    IF b = << >> THEN FALSE
    ELSE IF a = << >> THEN TRUE
    ELSE IF Head(a) /= Head(b) THEN Code(Head(a)) < Code(Head(b))
    ELSE StrLess(Tail(a), Tail(b))

-----------------------------------------------------------------------------
(* utils.py                                                                *)

MARKER == << "f", "o", "m", "c", "p", "r", "o", "j", "t", "a", "b", "l" >>

HTM == << ".", "h", "t", "m" >>

\* Dates are the integer YYYYMMDD, which orders as the Timestamp does; NaT is 0.
NaT == 0

Failed == [ok |-> FALSE, val |-> NaT]

Returned(v) == [ok |-> TRUE, val |-> v]

DigitVal(c) == Code(c) - Code("0")

RECURSIVE Number(_)
Number(s) == IF s = << >> THEN 0 ELSE 10 * Number(SubSeq(s, 1, Len(s) - 1)) + DigitVal(s[Len(s)])

IsLeap(y) == (y % 4 = 0 /\ y % 100 /= 0) \/ y % 400 = 0

DaysIn(y, m) ==
    IF m = 2 THEN (IF IsLeap(y) THEN 29 ELSE 28)
    ELSE IF m \in {4, 6, 9, 11} THEN 30 ELSE 31

IsCalendarDate(y, m, d) == m \in 1..12 /\ d \in 1..DaysIn(y, m)

\* pd.to_datetime on a str, for the strings whose outcome pandas fixes: the
\* empty string is NaT; eight digits are read as %Y%m%d, and raise when they
\* are no calendar date or lie outside the Timestamp range (1677-09-21 to
\* 2262-04-11); a string holding no digit names no date and raises.  The
\* inputs of the model (Hrefs, UrlInputs) lead to no other string.
to_datetime(s) ==
    IF s = << >> THEN Returned(NaT)
    ELSE IF Len(s) = 8 /\ \A n \in 1..8 : IsDigit(s[n])
    THEN LET y == Number(SubSeq(s, 1, 4))
             m == Number(SubSeq(s, 5, 6))
             d == Number(SubSeq(s, 7, 8))
             v == Number(s)
         IN  IF IsCalendarDate(y, m, d) /\ v >= 16770921 /\ v <= 22620411
             THEN Returned(v)
             ELSE Failed
    ELSE Failed

\* A slip: ".htm" is not removed before the last eight characters are taken.
parse_date_keeps_htm(url) ==
    LET parts == Split(url, MARKER)
    IN  IF Len(parts) < 2 THEN Failed
        ELSE to_datetime(LastN(parts[2], 8))

\* parse_date(url): re.split(...)[1] raises IndexError when the marker is absent.
parse_date(url) ==
    LET parts == Split(url, MARKER)
    IN  IF Len(parts) < 2 THEN Failed
        ELSE to_datetime(LastN(Remove(parts[2], HTM), 8))

\* safestr(ele): ele.strip() or None
safestr(ele) == IF Strip(ele) = << >> THEN None ELSE Strip(ele)

-----------------------------------------------------------------------------
(* slugify(text, separator="_") of python-slugify, on the model's           *)
(* characters: lower case, every run of characters outside [a-z0-9] becomes *)
(* one separator, separators at both ends are dropped.                      *)

IsSlugChar(c) == IsDigit(c) \/ IsLower(c)

\* The separated form, built left to right; `pending` says that a run of
\* other characters was passed since the last kept character.
RECURSIVE SlugFrom(_, _, _)
SlugFrom(s, out, pending) ==
    IF s = << >> THEN out
    ELSE IF IsSlugChar(Head(s))
    THEN SlugFrom(Tail(s),
                  (IF pending /\ out /= << >> THEN out \o << "_" >> ELSE out)
                      \o << Head(s) >>,
                  FALSE)
    ELSE SlugFrom(Tail(s), out, TRUE)

slugify(text) == SlugFrom(Lower(text), << >>, FALSE)

\* str(x) for a str or None.
str(x) == IF x = None THEN << "N", "o", "n", "e" >> ELSE x

-----------------------------------------------------------------------------
(* pandas: a DataFrame is [columns, rows]; rows[r][c] is the cell of row r  *)
(* under the label columns[c].  A missing value (None, NaN) is None.        *)

DATE == << "d", "a", "t", "e" >>

MIDPOINT == << "m", "i", "d", "p", "o", "i", "n", "t" >>

\* A Timestamp (or NaT) as a cell value.
Timestamp(d) == << "Timestamp", ToString(d) >>

NoFrame == [columns |-> << None >>, rows |-> << >>]

Range(s) == {s[n] : n \in 1..Len(s)}

HasDuplicates(s) == \E m, n \in 1..Len(s) : m < n /\ s[m] = s[n]

\* The position of label c in the duplicate-free list cols.
PosOf(cols, c) == CHOOSE n \in 1..Len(cols) : cols[n] = c

\* A Python dict in insertion order: [keys, vals].
EmptyDict == [keys |-> << >>, vals |-> << >>]

\* d[key] = v: a new key goes last, an old key keeps its place.
DictSet(d, key, v) ==
    IF key \in Range(d.keys)
    THEN [d EXCEPT !.vals[PosOf(d.keys, key)] = v]
    ELSE [keys |-> Append(d.keys, key), vals |-> Append(d.vals, v)]

\* The labels of s that are not in seen, each once, in order of appearance.
RECURSIVE NewLabels(_, _)
NewLabels(s, seen) ==
    IF s = << >> THEN << >>
    ELSE IF Head(s) \in seen THEN NewLabels(Tail(s), seen)
    ELSE << Head(s) >> \o NewLabels(Tail(s), seen \cup {Head(s)})

\* The union of label lists in order of first appearance.
RECURSIVE UnionInOrder(_)
UnionInOrder(lists) ==
    IF lists = << >> THEN << >>
    ELSE LET rest == UnionInOrder(SubSeq(lists, 1, Len(lists) - 1))
         IN  rest \o NewLabels(lists[Len(lists)], Range(rest))

\* pd.DataFrame(row_list) for a list of dicts: the columns are the keys in
\* order of first appearance, a key a row lacks is NaN in that row.
DataFrame(row_list) ==
    LET cols == UnionInOrder([r \in 1..Len(row_list) |-> row_list[r].keys])
    IN  [columns |-> cols,
         rows |-> [r \in 1..Len(row_list) |->
                     [c \in 1..Len(cols) |->
                        IF cols[c] \in Range(row_list[r].keys)
                        THEN row_list[r].vals[PosOf(row_list[r].keys, cols[c])]
                        ELSE None]]]

\* df[label] = scalar: an existing column is overwritten in place, a new one
\* goes last.
SetColumn(df, label, v) ==
    IF label \in Range(df.columns)
    THEN [df EXCEPT !.rows =
            [r \in 1..Len(df.rows) |->
               [c \in 1..Len(df.columns) |->
                  IF df.columns[c] = label THEN v ELSE df.rows[r][c]]]]
    ELSE [columns |-> Append(df.columns, label),
          rows |-> [r \in 1..Len(df.rows) |-> Append(df.rows[r], v)]]

\* df.rename(columns={old: new}): every label equal to old becomes new.
Rename(df, old, new) ==
    [df EXCEPT !.columns =
        [c \in 1..Len(df.columns) |->
           IF df.columns[c] = old THEN new ELSE df.columns[c]]]

\* obj.reindex(columns=cols) for duplicate-free labels on both sides.
Reindex(df, cols) ==
    [columns |-> cols,
     rows |-> [r \in 1..Len(df.rows) |->
                 [c \in 1..Len(cols) |->
                    IF cols[c] \in Range(df.columns)
                    THEN df.rows[r][PosOf(df.columns, cols[c])]
                    ELSE None]]]

RECURSIVE Flatten(_)
Flatten(lists) ==
    IF lists = << >> THEN << >>
    ELSE Flatten(SubSeq(lists, 1, Len(lists) - 1)) \o lists[Len(lists)]

\* A slip: the frames are stacked under the columns of the first one.
concat_first_columns(dfs) ==
    IF dfs = << >> THEN [ok |-> FALSE, df |-> NoFrame]
    ELSE [ok |-> TRUE,
          df |-> [columns |-> dfs[1].columns,
                  rows |-> Flatten([n \in 1..Len(dfs) |->
                                      [r \in 1..Len(dfs[n].rows) |->
                                         [c \in 1..Len(dfs[1].columns) |->
                                            IF c <= Len(dfs[n].rows[r])
                                            THEN dfs[n].rows[r][c] ELSE None]]])]]

\* pd.concat(dfs) (axis 0, outer join, sort=False).  No frame raises
\* ValueError.  Frames with equal column lists are stacked as they are;
\* otherwise the combined columns are the distinct labels in order of first
\* appearance and each differing frame is reindexed to them, which raises
\* InvalidIndexError for a frame with duplicate labels.
concat(dfs) ==
    IF dfs = << >> THEN [ok |-> FALSE, df |-> NoFrame]
    ELSE IF \A n \in 1..Len(dfs) : dfs[n].columns = dfs[1].columns
    THEN [ok |-> TRUE,
          df |-> [columns |-> dfs[1].columns,
                  rows |-> Flatten([n \in 1..Len(dfs) |-> dfs[n].rows])]]
    ELSE IF \E n \in 1..Len(dfs) : HasDuplicates(dfs[n].columns)
    THEN [ok |-> FALSE, df |-> NoFrame]
    ELSE LET cols == UnionInOrder([n \in 1..Len(dfs) |-> dfs[n].columns])
         IN  [ok |-> TRUE,
              df |-> [columns |-> cols,
                      rows |-> Flatten([n \in 1..Len(dfs) |->
                                          Reindex(dfs[n], cols).rows])]]

\* The positions of df's columns picked by df[labels]: for each label in
\* turn, every column carrying it, left to right.
RECURSIVE Picked(_, _)
Picked(cols, labels) ==
    IF labels = << >> THEN << >>
    ELSE SelectSeq([n \in 1..Len(cols) |-> n], LAMBDA n : cols[n] = Head(labels))
         \o Picked(cols, Tail(labels))

\* df[labels]: KeyError when a label is no column.
GetItem(df, labels) ==
    IF \E n \in 1..Len(labels) : labels[n] \notin Range(df.columns)
    THEN [ok |-> FALSE, df |-> NoFrame]
    ELSE LET pos == Picked(df.columns, labels)
         IN  [ok |-> TRUE,
              df |-> [columns |-> [c \in 1..Len(pos) |-> df.columns[pos[c]]],
                      rows |-> [r \in 1..Len(df.rows) |->
                                  [c \in 1..Len(pos) |-> df.rows[r][pos[c]]]]]]

\* sorted() on a list of str.
RECURSIVE Insert(_, _)
Insert(x, s) ==
    IF s = << >> THEN << x >>
    ELSE IF StrLess(x, Head(s)) THEN << x >> \o s
    ELSE << Head(s) >> \o Insert(x, Tail(s))

RECURSIVE sorted(_)
sorted(s) ==
    IF s = << >> THEN << >>
    ELSE Insert(s[Len(s)], sorted(SubSeq(s, 1, Len(s) - 1)))

-----------------------------------------------------------------------------
(* The site: literals of scrape.py.                                        *)

\* The scheme and host _get_source_urls puts before every href.
HOST ==
    << "h", "t", "t", "p", "s", ":", "/", "/", "w", "w", "w", ".", "f",
       "e", "d", "e", "r", "a", "l", "r", "e", "s", "e", "r", "v", "e",
       ".", "g", "o", "v" >>

ROOT_URL ==
    << "h", "t", "t", "p", "s", ":", "/", "/", "w", "w", "w", ".", "f",
       "e", "d", "e", "r", "a", "l", "r", "e", "s", "e", "r", "v", "e",
       ".", "g", "o", "v", "/", "m", "o", "n", "e", "t", "a", "r", "y",
       "p", "o", "l", "i", "c", "y", "/", "f", "o", "m", "c", "c", "a",
       "l", "e", "n", "d", "a", "r", "s", ".", "h", "t", "m" >>

PHRASE ==
    << "a", "s", "s", "e", "s", "s", "m", "e", "n", "t", "s", " ", "o",
       "f", " ", "a", "p", "p", "r", "o", "p", "r", "i", "a", "t", "e",
       " ", "m", "o", "n", "e", "t", "a", "r", "y", " ", "p", "o", "l",
       "i", "c", "y" >>

-----------------------------------------------------------------------------
(* The documents BeautifulSoup hands to the code.  A page is the sequence  *)
(* of its elements in document order; an element is a heading, a table or  *)
(* something else.  `string` is the element's .string (None when it has    *)
(* more than one child); a table carries the th texts of its thead row and *)
(* the cell texts of each tr of its tbody.                                 *)

Element(tag, string) ==
    [tag |-> tag, string |-> string, has_thead |-> FALSE, thead |-> << >>,
     has_tbody |-> FALSE, tbody |-> << >>]

Table(has_thead, thead, has_tbody, tbody) ==
    [tag |-> "table", string |-> None, has_thead |-> has_thead, thead |-> thead,
     has_tbody |-> has_tbody, tbody |-> tbody]

\* Heading texts.
TITLE ==
    << "A", "s", "s", "e", "s", "s", "m", "e", "n", "t", "s", " ", "o",
       "f", " ", "a", "p", "p", "r", "o", "p", "r", "i", "a", "t", "e",
       " ", "m", "o", "n", "e", "t", "a", "r", "y", " ", "p", "o", "l",
       "i", "c", "y" >>

TITLE_UPPER ==
    << "F", "I", "G", "U", "R", "E", " ", "2", ".", " ", "A", "S", "S",
       "E", "S", "S", "M", "E", "N", "T", "S", " ", "O", "F", " ", "A",
       "P", "P", "R", "O", "P", "R", "I", "A", "T", "E", " ", "M", "O",
       "N", "E", "T", "A", "R", "Y", " ", "P", "O", "L", "I", "C", "Y" >>

TITLE_OTHER ==
    << "E", "c", "o", "n", "o", "m", "i", "c", " ", "p", "r", "o", "j",
       "e", "c", "t", "i", "o", "n", "s" >>

\* Header cell texts.
LBL_MID ==
    << "M", "i", "d", " ", "p", "t" >>

LBL_2012 ==
    << "2", "0", "1", "2" >>

LBL_2013 ==
    << " ", "2", "0", "1", "3", " " >>

LBL_DATE ==
    << "D", "a", "t", "e" >>

LBL_MIDPOINT ==
    << "M", "i", "d", "p", "o", "i", "n", "t" >>

LBL_LONG_A ==
    << "L", "o", "n", "g", " ", "r", "u", "n" >>

LBL_LONG_B ==
    << "L", "o", "n", "g", "-", "r", "u", "n" >>

LBL_BLANK ==
    << " " >>

-----------------------------------------------------------------------------
(* Bounds and the inputs drawn within them.                                *)

\* The most anchors an index page holds.
MaxLinks == 2

\* The most body rows a table holds.
MaxRows == 2

\* The hrefs an anchor of the index page may carry.
HREF_JAN ==
    << "/", "a", "/", "f", "o", "m", "c", "p", "r", "o", "j", "t", "a",
       "b", "l", "2", "0", "1", "2", "0", "1", "2", "5", ".", "h", "t",
       "m" >>

HREF_APR ==
    << "/", "a", "/", "f", "o", "m", "c", "p", "r", "o", "j", "t", "a",
       "b", "l", "2", "0", "1", "2", "0", "4", "2", "5", ".", "h", "t",
       "m" >>

\* The same meeting date as HREF_JAN under another path.
HREF_JAN_B ==
    << "/", "b", "/", "f", "o", "m", "c", "p", "r", "o", "j", "t", "a",
       "b", "l", "2", "0", "1", "2", "0", "1", "2", "5", ".", "h", "t",
       "m" >>

\* An href that is already absolute.
HREF_ABSOLUTE ==
    << "h", "t", "t", "p", "s", ":", "/", "/", "w", "w", "w", ".", "f",
       "e", "d", "e", "r", "a", "l", "r", "e", "s", "e", "r", "v", "e",
       ".", "g", "o", "v", "/", "a", "/", "f", "o", "m", "c", "p", "r",
       "o", "j", "t", "a", "b", "l", "2", "0", "1", "2", "0", "4", "2",
       "5", ".", "h", "t", "m" >>

\* Passes the filter and carries no date.
HREF_NODATE ==
    << "/", "a", "/", "f", "o", "m", "c", "p", "r", "o", "j", "t", "a",
       "b", "l", ".", "h", "t", "m" >>

\* Passes the filter and carries no digits.
HREF_BADDATE ==
    << "/", "a", "/", "f", "o", "m", "c", "p", "r", "o", "j", "t", "a",
       "b", "l", "x", ".", "h", "t", "m" >>

\* Lacks ".htm": not selected.
HREF_PDF ==
    << "/", "a", "/", "f", "o", "m", "c", "p", "r", "o", "j", "t", "a",
       "b", "l", "2", "0", "1", "2", "0", "1", "2", "5", ".", "p", "d",
       "f" >>

\* Lacks the marker: not selected.
HREF_OTHER ==
    << "/", "a", "/", "x", ".", "h", "t", "m" >>

\* None stands for an anchor without href.
Hrefs ==
    { HREF_JAN, HREF_APR, HREF_JAN_B, HREF_ABSOLUTE, HREF_NODATE, HREF_BADDATE,
      HREF_PDF, HREF_OTHER, None }

IndexDocs == UNION { [1..n -> Hrefs] : n \in 0..MaxLinks }

\* The header rows a table may have.  The plain one gives distinct column
\* names other than date and midpoint; the others give other columns, or
\* labels that slugify to date, to midpoint, to each other or to "none", or
\* no header cell at all.
PlainHeader == << LBL_MID, LBL_2012 >>

OtherHeaders ==
    { << LBL_MID, LBL_2013, LBL_2012 >>,
      << LBL_DATE, LBL_2012 >>,
      << LBL_MID, LBL_MIDPOINT >>,
      << LBL_LONG_A, LBL_LONG_B >>,
      << LBL_BLANK, LBL_2013 >> }

Digit(n) == Ascii[Code("0") + n]

\* The text of cell c of body row r: the two positions, padded with blanks.
CellText(r, c) == << " ", Digit(r), ".", Digit(c), " " >>

\* How the last body row of a table departs from the header row: not at all,
\* one cell fewer, one cell more, or a first cell of white space only.
RowKinds == { "full", "short", "long", "blank" }

RowCells(r, n, kind) ==
    CASE kind = "short" -> [c \in 1..(n - 1) |-> CellText(r, c)]
      [] kind = "long"  -> [c \in 1..(n + 1) |-> CellText(r, c)]
      [] kind = "blank" -> [c \in 1..n |-> IF c = 1 THEN << " ", " " >> ELSE CellText(r, c)]
      [] OTHER          -> [c \in 1..n |-> CellText(r, c)]

Body(n, rows, kind) ==
    [r \in 1..rows |-> RowCells(r, n, IF r = rows THEN kind ELSE "full")]

FullTable(h, rows) == Table(TRUE, h, TRUE, Body(Len(h), rows, "full"))

\* The tables: under the plain header, the most rows with a last row of
\* every kind, and no row; under the other headers one full row; and rows
\* without cells under a header row without cells.
Tables ==
    { Table(TRUE, PlainHeader, TRUE, Body(Len(PlainHeader), MaxRows, kind)) :
        kind \in RowKinds }
    \cup { FullTable(PlainHeader, 0), FullTable(<< >>, MaxRows) }
    \cup { FullTable(h, 1) : h \in OtherHeaders }

StandardTable == FullTable(PlainHeader, 1)

DecoyTable == FullTable(<< LBL_2013 >>, 1)

\* The pages a source URL may serve: every table after a plain anchor
\* heading, and the standard table in documents that vary the landmarks.
PageDocs ==
    { << Element("h4", TITLE), Element("p", TITLE_OTHER), t >> : t \in Tables }
    \cup
    { << DecoyTable, Element("h4", TITLE_OTHER), Element("h5", TITLE_UPPER),
         Element("p", None), StandardTable >>,
      << Element("h3", TITLE), StandardTable >>,
      << Element("h4", None), StandardTable >>,
      << StandardTable, Element("h4", TITLE) >>,
      << Element("h4", TITLE), Table(FALSE, << >>, TRUE, Body(2, 1, "full")) >>,
      << Element("h5", TITLE), Table(TRUE, PlainHeader, FALSE, << >>) >> }

\* Complete URLs for parse_date on its own: a part before the marker, the
\* marker or not, a suffix, eight digits, ".htm".
DIGITS_JAN ==
    << "2", "0", "1", "2", "0", "1", "2", "5" >>

DIGITS_LEAP ==
    << "2", "0", "2", "4", "0", "2", "2", "9" >>

\* A calendar date before the first Timestamp.
DIGITS_OLD ==
    << "1", "5", "0", "0", "0", "1", "0", "1" >>

UrlBefore ==
    { HOST \o << "/", "a", "/" >>, << "/" >>,
      HOST \o << "/" >> \o MARKER \o << "/" >> }

UrlSuffix ==
    { << >>, << "a" >>, << "1" >>, HTM, << "a" >> \o HTM \o << "b" >>,
      MARKER, MARKER \o DIGITS_LEAP }

UrlDigits == { DIGITS_JAN, DIGITS_LEAP, DIGITS_OLD }

UrlInput(before, marked, suffix, digits) ==
    before \o (IF marked THEN MARKER ELSE << >>) \o suffix \o digits \o HTM

UrlInputs ==
    { UrlInput(b, m, x, d) :
        b \in UrlBefore, m \in BOOLEAN, x \in UrlSuffix, d \in UrlDigits }

-----------------------------------------------------------------------------
(* utils.get_url and scrape._get_source_urls                               *)

\* get_url(url): the outcomes of requests.get and `assert r.ok`: TRUE is a
\* page returned, FALSE an exception.  Only a URL made of the host and a
\* path can be served.
get_url(url) == IF OccursAt(url, HOST \o << "/" >>, 1) THEN BOOLEAN ELSE { FALSE }

\* soup.find_all("a", href=...): the hrefs holding the marker and ".htm".
target_links(doc) ==
    SelectSeq(doc, LAMBDA href :
        href /= None /\ Contains(href, MARKER) /\ Contains(href, HTM))

\* f"https://www.federalreserve.gov{a['href']}"
absolute_url(href) == HOST \o href

\* The order sort_values puts NaT last.
DateLeq(a, b) == b = NaT \/ (a /= NaT /\ a <= b)

Arrangements(n) ==
    { f \in [1..n -> 1..n] : \A a, b \in 1..n : a /= b => f[a] /= f[b] }

\* A slip: the references are returned as discovered.
sort_values_skipped(refs) == { refs }

\* df.sort_values("date"): the default kind is quicksort, which is not
\* stable, so every arrangement that is ascending by date is an outcome.
sort_values(refs) ==
    { [n \in 1..Len(refs) |-> refs[f[n]]] :
        f \in { g \in Arrangements(Len(refs)) :
                  \A n \in 1..(Len(refs) - 1) :
                      DateLeq(refs[g[n]].date, refs[g[n + 1]].date) } }

\* _get_source_urls() on the parsed index page: its outcomes.  No selected
\* link leaves a frame without a url column (AttributeError); parse_date
\* raising ends the call.
get_source_urls(doc) ==
    LET links == target_links(doc)
        urls  == [n \in 1..Len(links) |-> absolute_url(links[n])]
        dates == [n \in 1..Len(links) |-> parse_date(urls[n])]
    IN  IF links = << >>
        THEN { [ok |-> FALSE, stage |-> "no_links", refs |-> << >>] }
        ELSE IF \E n \in 1..Len(links) : ~dates[n].ok
        THEN { [ok |-> FALSE, stage |-> "date_parse", refs |-> << >>] }
        ELSE { [ok |-> TRUE, stage |-> "", refs |-> s] :
                 s \in sort_values([n \in 1..Len(links) |->
                                      [url |-> urls[n], date |-> dates[n].val]]) }

-----------------------------------------------------------------------------
(* scrape._parse_source_url                                                *)

NoTable == Table(FALSE, << >>, FALSE, << >>)

Raised(stage) == [ok |-> FALSE, stage |-> stage, df |-> NoFrame, table |-> NoTable]

\* soup.find(["h4", "h5"], string=...): the position of the first h4 or h5
\* whose .string holds the phrase in any case, 0 when there is none.
find_heading(doc) ==
    LET hits == { n \in 1..Len(doc) :
                    /\ doc[n].tag \in { "h4", "h5" }
                    /\ doc[n].string /= None
                    /\ Contains(Lower(doc[n].string), PHRASE) }
    IN  IF hits = { } THEN 0 ELSE CHOOSE n \in hits : \A m \in hits : n <= m

\* target_h4.find_next("table"): the first table after position n, 0 when none.
find_next_table(doc, n) ==
    LET hits == { m \in (n + 1)..Len(doc) : doc[m].tag = "table" }
    IN  IF hits = { } THEN 0 ELSE CHOOSE m \in hits : \A x \in hits : m <= x

\* The loop over the cells of one tr: row_dict after the first n cells.
RECURSIVE row_dict(_, _, _)
row_dict(headers, cells, n) ==
    IF n = 0 THEN EmptyDict
    ELSE DictSet(row_dict(headers, cells, n - 1),
                 slugify(str(headers[n])), safestr(cells[n]))

\* The frame built from the rows of a table whose rows all fit the headers.
page_frame(headers, body, date) ==
    LET row_list == [r \in 1..Len(body) |-> row_dict(headers, body[r], Len(body[r]))]
        df       == SetColumn(DataFrame(row_list), DATE, Timestamp(date))
    IN  Rename(df, df.columns[1], MIDPOINT)

\* _parse_source_url(url, date) on the document fetched from url.  A missing
\* heading, table, thead or tbody is an AttributeError on None; headers[i]
\* past the last header is an IndexError.
parse_source_url(doc, date) ==
    LET h == find_heading(doc)
        t == IF h = 0 THEN 0 ELSE find_next_table(doc, h)
    IN  IF h = 0 THEN Raised("anchor")
        ELSE IF t = 0 THEN Raised("table")
        ELSE IF ~doc[t].has_thead \/ ~doc[t].has_tbody THEN Raised("table")
        ELSE LET headers == [n \in 1..Len(doc[t].thead) |-> safestr(doc[t].thead[n])]
                 body    == doc[t].tbody
             IN  IF \E r \in 1..Len(body) : Len(body[r]) > Len(headers)
                 THEN Raised("row")
                 ELSE [ok |-> TRUE, stage |-> "",
                       df |-> page_frame(headers, body, date), table |-> doc[t]]

-----------------------------------------------------------------------------
(* scrape.scrape: the part after the loop                                  *)

\* ["date", "midpoint"] + sorted(the other labels of big_df)
col_order(df) ==
    << DATE, MIDPOINT >>
        \o sorted(SelectSeq(df.columns, LAMBDA c : c \notin { DATE, MIDPOINT }))

\* pd.concat(df_list), then big_df[col_order].
unify(dfs) ==
    LET big == concat(dfs)
    IN  IF ~big.ok THEN big ELSE GetItem(big.df, col_order(big.df))

-----------------------------------------------------------------------------
(* The run of scrape().                                                    *)

NoOutcome == [ok |-> FALSE, val |-> NaT]

Init ==
    /\ pc = "start"
    /\ err = ""
    /\ index_doc = << >>
    /\ source_list = << >>
    /\ k = 0
    /\ html = << >>
    /\ tables = << >>
    /\ df_list = << >>
    /\ big_df = NoFrame
    /\ requests = << >>
    /\ url_in = << >>
    /\ date_out = NoOutcome

\* An exception leaves scrape(): nothing is returned.
Abort(stage) ==
    /\ pc' = "failed"
    /\ err' = stage

\* source_df = _get_source_urls()
GetSourceUrls ==
    /\ pc = "start"
    /\ requests' = Append(requests, ROOT_URL)
    /\ \E ok \in get_url(ROOT_URL) :
         IF ~ok
         THEN /\ Abort("index_fetch")
              /\ UNCHANGED <<index_doc, source_list>>
         ELSE \E doc \in IndexDocs :
                \E out \in get_source_urls(doc) :
                  /\ index_doc' = doc
                  /\ source_list' = out.refs
                  /\ IF out.ok
                     THEN pc' = "loop" /\ err' = err
                     ELSE Abort(out.stage)
    /\ UNCHANGED <<k, html, tables, df_list, big_df, url_in, date_out>>

\* A slip: the sources are walked from the last to the first.
FetchPage_backwards ==
    /\ pc = "loop"
    /\ k < Len(source_list)
    /\ requests' = Append(requests, source_list[Len(source_list) - k].url)
    /\ \E ok \in get_url(source_list[Len(source_list) - k].url) :
         IF ~ok
         THEN Abort("page_fetch") /\ html' = html
         ELSE \E doc \in PageDocs :
                /\ html' = doc
                /\ pc' = "fetched"
                /\ err' = err
    /\ UNCHANGED <<index_doc, source_list, k, tables, df_list, big_df, url_in,
                   date_out>>

\* _parse_source_url: html = utils.get_url(url) for the next source.
FetchPage ==
    /\ pc = "loop"
    /\ k < Len(source_list)
    /\ requests' = Append(requests, source_list[k + 1].url)
    /\ \E ok \in get_url(source_list[k + 1].url) :
         IF ~ok
         THEN Abort("page_fetch") /\ html' = html
         ELSE \E doc \in PageDocs :
                /\ html' = doc
                /\ pc' = "fetched"
                /\ err' = err
    /\ UNCHANGED <<index_doc, source_list, k, tables, df_list, big_df, url_in,
                   date_out>>

\* A slip: a page whose extraction raises is skipped and the loop goes on.
ExtractTable_skips ==
    /\ pc = "fetched"
    /\ LET out == parse_source_url(html, source_list[k + 1].date)
       IN  IF out.ok
           THEN /\ df_list' = Append(df_list, out.df)
                /\ tables' = Append(tables, out.table)
                /\ err' = err
           ELSE /\ err' = out.stage
                /\ UNCHANGED <<df_list, tables>>
    /\ k' = k + 1
    /\ pc' = "loop"
    /\ html' = << >>
    /\ UNCHANGED <<index_doc, source_list, big_df, requests, url_in, date_out>>

\* The rest of _parse_source_url, and df_list.append(df).
ExtractTable ==
    /\ pc = "fetched"
    /\ LET out == parse_source_url(html, source_list[k + 1].date)
       IN  IF out.ok
           THEN /\ df_list' = Append(df_list, out.df)
                /\ tables' = Append(tables, out.table)
                /\ k' = k + 1
                /\ pc' = "loop"
                /\ err' = err
           ELSE /\ Abort(out.stage)
                /\ UNCHANGED <<df_list, tables, k>>
    /\ html' = << >>
    /\ UNCHANGED <<index_doc, source_list, big_df, requests, url_in, date_out>>

\* After the loop: concatenate, reorder, return.
Unify ==
    /\ pc = "loop"
    /\ k = Len(source_list)
    /\ LET out == unify(df_list)
       IN  IF out.ok
           THEN /\ big_df' = out.df
                /\ pc' = "done"
                /\ err' = err
           ELSE /\ Abort("unify")
                /\ big_df' = big_df
    /\ UNCHANGED <<index_doc, source_list, k, html, tables, df_list, requests,
                   url_in, date_out>>

Next == GetSourceUrls \/ FetchPage \/ ExtractTable \/ Unify

Spec == Init /\ [][Next]_vars

-----------------------------------------------------------------------------
(* parse_date on its own, applied to one URL.                              *)

InitDate ==
    /\ pc = "parse_date"
    /\ err = ""
    /\ index_doc = << >>
    /\ source_list = << >>
    /\ k = 0
    /\ html = << >>
    /\ tables = << >>
    /\ df_list = << >>
    /\ big_df = NoFrame
    /\ requests = << >>
    /\ url_in \in UrlInputs
    /\ date_out = NoOutcome

ParseDate ==
    /\ pc = "parse_date"
    /\ date_out' = parse_date(url_in)
    /\ pc' = IF date_out'.ok THEN "parsed" ELSE "failed"
    /\ UNCHANGED <<err, index_doc, source_list, k, html, tables, df_list, big_df,
                   requests, url_in>>

NextDate == ParseDate

SpecDate == InitDate /\ [][NextDate]_vars

-----------------------------------------------------------------------------
(* What the claims speak about.                                            *)

\* scrape() returned a frame.
Returned_ == pc = "done"

\* The references the index page yields, in the order of its anchors.
Discovered ==
    LET links == target_links(index_doc)
    IN  [n \in 1..Len(links) |->
           [url |-> absolute_url(links[n]),
            date |-> parse_date(absolute_url(links[n])).val]]

\* _get_source_urls() has just returned its references.
JustResolved == pc = "loop" /\ k = 0

\* _get_source_urls() has returned its references.
Resolved == pc \in { "loop", "fetched", "done" } \/ (pc = "failed" /\ Len(requests) > 1)

\* The number of rows the frames before the n-th put into the result.
RECURSIVE RowsBefore(_)
RowsBefore(n) == IF n <= 1 THEN 0 ELSE RowsBefore(n - 1) + Len(df_list[n - 1].rows)

\* The cells of `row` under the label, left to right.
CellsUnder(cols, row, label) ==
    LET pos == SelectSeq([n \in 1..Len(cols) |-> n], LAMBDA n : cols[n] = label)
    IN  [n \in 1..Len(pos) |-> row[pos[n]]]

StrictlyAscending(s) == \A n \in 1..(Len(s) - 1) : StrLess(s[n], s[n + 1])

-----------------------------------------------------------------------------
(* C1. The first column of the frame scrape() returns is `date`, the       *)
(* second is `midpoint`, the others follow in alphabetical order, and no   *)
(* column name appears twice.  The code breaks this when a header after    *)
(* the first slugifies to `midpoint`: renaming the first column then       *)
(* leaves two `midpoint` columns, and both are selected.                   *)

C1_CanonicalOrder ==
    Returned_ =>
        /\ Len(big_df.columns) >= 2
        /\ big_df.columns[1] = DATE
        /\ big_df.columns[2] = MIDPOINT
        /\ StrictlyAscending(SubSeq(big_df.columns, 3, Len(big_df.columns)))
        /\ ~HasDuplicates(big_df.columns)

-----------------------------------------------------------------------------
(* C2. As claimed: the columns of the returned frame are the union of the  *)
(* columns of the collected frames, every row has a cell for each, and the *)
(* cell is null exactly under the columns its own page did not have.       *)

C2_NullExactlyWhereMissing ==
    Returned_ =>
        /\ Range(big_df.columns) = UNION { Range(df_list[n].columns) : n \in 1..Len(df_list) }
        /\ \A n \in 1..Len(df_list) : \A r \in 1..Len(df_list[n].rows) :
             LET row == big_df.rows[RowsBefore(n) + r]
             IN  /\ Len(row) = Len(big_df.columns)
                 /\ \A c \in 1..Len(row) :
                      row[c] = None <=> big_df.columns[c] \notin Range(df_list[n].columns)

(* C2, amended. The columns are that union and every row has a cell for    *)
(* each; under a column its page did not have the cell is null, and under  *)
(* a column its page had it is the page's own cell, which is itself null   *)
(* for an empty cell or a cell the row lacked.                             *)
C2_UnionAndFill ==
    Returned_ =>
        /\ Range(big_df.columns) = UNION { Range(df_list[n].columns) : n \in 1..Len(df_list) }
        /\ Len(big_df.rows) = RowsBefore(Len(df_list) + 1)
        /\ \A n \in 1..Len(df_list) : \A r \in 1..Len(df_list[n].rows) :
             LET row == big_df.rows[RowsBefore(n) + r]
             IN  /\ Len(row) = Len(big_df.columns)
                 /\ \A label \in Range(big_df.columns) :
                      CellsUnder(big_df.columns, row, label) =
                          IF label \in Range(df_list[n].columns)
                          THEN CellsUnder(df_list[n].columns, df_list[n].rows[r], label)
                          ELSE << None >>

\* Two pages with rows, each lacking a column of the other, were unified,
\* and a row is null under a column of its own page.
C2_Witness ==
    /\ Returned_
    /\ Len(df_list) = 2
    /\ \A n \in 1..2 :
         /\ Len(df_list[n].rows) > 0
         /\ Range(df_list[n].columns) /= Range(big_df.columns)
    /\ \E r \in 1..Len(df_list[2].rows) : \E c \in 1..Len(df_list[2].columns) :
         df_list[2].rows[r][c] = None

-----------------------------------------------------------------------------
(* C3. As claimed: the references come back ascending by date, and         *)
(* references with the same date keep the order in which the index page    *)
(* lists them.                                                             *)

C3_StableSort ==
    JustResolved =>
        LET found == Discovered
        IN  \E f \in Arrangements(Len(found)) :
            /\ source_list = [n \in 1..Len(found) |-> found[f[n]]]
            /\ \A a, b \in 1..Len(found) :
                 a < b => /\ DateLeq(source_list[a].date, source_list[b].date)
                          /\ source_list[a].date = source_list[b].date => f[a] < f[b]

(* C3, amended. The references come back as an arrangement of the          *)
(* discovered ones that is ascending by date, those without a date (NaT)   *)
(* last; the order among references with the same date is not fixed.       *)
C3_SortedArrangement ==
    JustResolved =>
        LET found == Discovered
        IN  \E f \in Arrangements(Len(found)) :
            /\ source_list = [n \in 1..Len(found) |-> found[f[n]]]
            /\ \A a, b \in 1..Len(found) :
                 a < b => DateLeq(source_list[a].date, source_list[b].date)

\* The index page listed a later meeting first and the sort reversed them.
C3_Witness ==
    /\ JustResolved
    /\ Len(source_list) = 2
    /\ source_list[1].date < source_list[2].date
    /\ Discovered[1] = source_list[2]

-----------------------------------------------------------------------------
(* C4. The index page is requested once and first; the source pages are    *)
(* then requested one at a time in the order of the sorted references      *)
(* (ascending by date, NaT last), each only after the extraction of the    *)
(* one before it has completed; and a run that returns has extracted every *)
(* discovered reference once, the n-th frame from the n-th reference.      *)

C4_Sequential ==
    /\ requests /= << >> => requests[1] = ROOT_URL
    /\ \A n \in 2..Len(requests) :
         requests[n] = source_list[n - 1].url /\ requests[n] /= ROOT_URL
    /\ \A a, b \in 1..Len(source_list) :
         a < b => DateLeq(source_list[a].date, source_list[b].date)
    /\ Len(df_list) = k /\ Len(tables) = k
    /\ Len(requests) <= k + 2
    /\ pc = "loop" => Len(requests) = k + 1
    /\ pc = "fetched" => Len(requests) = k + 2
    /\ Returned_ =>
         /\ k = Len(source_list)
         /\ Len(source_list) = Len(target_links(index_doc))
         /\ Len(requests) = Len(source_list) + 1
         /\ \A n \in 1..Len(df_list) :
              df_list[n] = parse_source_url(<< Element("h4", TITLE), tables[n] >>,
                                            source_list[n].date).df

\* A run over two meetings that the index page lists latest first returned.
C4_Witness ==
    /\ Returned_
    /\ Len(source_list) = 2
    /\ source_list[1].date < source_list[2].date
    /\ Discovered[1] = source_list[2]
    /\ Len(requests) = 3

-----------------------------------------------------------------------------
(* C5. An exception at any stage ends the run where it is raised: the run  *)
(* is failed, the failing request or extraction is the last thing done,    *)
(* and nothing is returned; a frame is returned only after every           *)
(* discovered reference was extracted.                                     *)

IndexStages == { "index_fetch", "no_links", "date_parse" }

PageStages == { "page_fetch", "anchor", "table", "row" }

C5_ErrorsAbort ==
    /\ err /= "" <=> pc = "failed"
    /\ pc = "failed" => big_df = NoFrame
    /\ err \in IndexStages => requests = << ROOT_URL >> /\ k = 0
    /\ err \in PageStages => Len(requests) = k + 2 /\ k < Len(source_list)
    /\ err = "unify" => k = Len(source_list)
    /\ big_df /= NoFrame =>
         /\ Returned_
         /\ Len(df_list) = Len(target_links(index_doc))
         /\ Len(tables) = Len(df_list)

\* The second page's extraction raised after the first page was extracted:
\* the frame in hand is not returned.
C5_Witness ==
    /\ pc = "failed"
    /\ err = "row"
    /\ Len(df_list) = 1
    /\ Len(df_list[1].rows) > 0
    /\ Len(source_list) = 2
    /\ big_df = NoFrame

-----------------------------------------------------------------------------
(* C6. As claimed: an extraction succeeds only on a table whose body rows  *)
(* all have as many cells as the header row.  The code does not check: a   *)
(* row with fewer cells is taken and the columns it lacks are null.        *)

C6_MismatchRejected ==
    \A n \in 1..Len(tables) : \A r \in 1..Len(tables[n].tbody) :
        Len(tables[n].tbody[r]) = Len(tables[n].thead)

-----------------------------------------------------------------------------
(* C7. As claimed: every frame _parse_source_url returns has a column      *)
(* `midpoint` holding, in every row, the row's first cell, and a column    *)
(* `date` holding the meeting date in every row.  The code breaks this for *)
(* a table without body rows, and for header labels that slugify to        *)
(* `date`, to `midpoint` or to each other.                                 *)

C7_DateAndMidpoint ==
    \A n \in 1..Len(df_list) :
        /\ MIDPOINT \in Range(df_list[n].columns)
        /\ DATE \in Range(df_list[n].columns)
        /\ \A r \in 1..Len(df_list[n].rows) :
             /\ CellsUnder(df_list[n].columns, df_list[n].rows[r], DATE)
                    = << Timestamp(source_list[n].date) >>
             /\ Len(tables[n].tbody[r]) > 0 =>
                    CellsUnder(df_list[n].columns, df_list[n].rows[r], MIDPOINT)
                        = << safestr(tables[n].tbody[r][1]) >>

-----------------------------------------------------------------------------
(* C8. As claimed: the URL of a selected link is the host followed by the  *)
(* href when the href is relative, and the href itself when it is already  *)
(* absolute.  The code puts the host before every href.                    *)

IsAbsolute(href) == OccursAt(href, SubSeq(HOST, 1, 8), 1)

C8_PrefixOnlyRelative ==
    (Resolved /\ pc /= "failed") =>
        { source_list[n].url : n \in 1..Len(source_list) }
            = { IF IsAbsolute(href) THEN href ELSE HOST \o href :
                  href \in Range(target_links(index_doc)) }

-----------------------------------------------------------------------------
(* C10. As claimed: the returned frame has one row per body row of every   *)
(* source table, the rows of a page together and in table order, the pages *)
(* in the order of their dates, and every row carries the meeting date of  *)
(* its page.  The code breaks the last part for a page whose first header  *)
(* slugifies to `date` (see C7): its rows come out with a null date.       *)

RECURSIVE BodyRowsBefore(_)
BodyRowsBefore(n) ==
    IF n <= 1 THEN 0 ELSE BodyRowsBefore(n - 1) + Len(tables[n - 1].tbody)

C10_RowsPerPage ==
    Returned_ =>
        /\ Len(big_df.rows) = BodyRowsBefore(Len(tables) + 1)
        /\ \A a, b \in 1..Len(source_list) :
             a < b => DateLeq(source_list[a].date, source_list[b].date)
        /\ \A n \in 1..Len(tables) : \A r \in 1..Len(tables[n].tbody) :
             LET row == big_df.rows[BodyRowsBefore(n) + r]
             IN  /\ CellsUnder(big_df.columns, row, DATE)
                        = << Timestamp(source_list[n].date) >>
                 /\ \A label \in Range(df_list[n].columns) :
                      CellsUnder(big_df.columns, row, label)
                          = CellsUnder(df_list[n].columns, df_list[n].rows[r], label)

-----------------------------------------------------------------------------
(* C9, checked under SpecDate.  As claimed: for a URL that ends in eight   *)
(* digits of a calendar date and ".htm", with the marker somewhere before  *)
(* them, parse_date returns that date; for a URL without the marker it     *)
(* raises.                                                                 *)

Called == pc /= "parse_date"

\* The eight characters before the final ".htm".
UrlDigitsOf(url) == SubSeq(url, Len(url) - 11, Len(url) - 4)

OfTheForm(url) ==
    /\ Len(url) >= 12 + Len(MARKER)
    /\ OccursAt(url, HTM, Len(url) - 3)
    /\ \A n \in 1..8 : IsDigit(UrlDigitsOf(url)[n])
    /\ IsCalendarDate(Number(SubSeq(UrlDigitsOf(url), 1, 4)),
                      Number(SubSeq(UrlDigitsOf(url), 5, 6)),
                      Number(SubSeq(UrlDigitsOf(url), 7, 8)))
    /\ \E n \in 1..(Len(url) - 11 - Len(MARKER)) : OccursAt(url, MARKER, n)

MarkerCount(url) == Cardinality({ n \in 1..Len(url) : OccursAt(url, MARKER, n) })

=============================================================================
